---- MODULE Spec2Model ----
(***************************************************************************)
(* The attendance record store of src/database.py (class Database): the   *)
(* users and attendance tables, the mutating operations create_user,      *)
(* mark_attendance and delete_attendance, and the read-side queries.      *)
(* Spec is the attendance table, SpecUsers the users table, SpecStats the *)
(* two statistics queries, SpecListing and SpecListAll the two listings,  *)
(* SpecConc mark_attendance run by several callers at once, and SpecAuth  *)
(* the login session of src/auth.py (class AuthManager).                  *)
(*                                                                         *)
(* Encoding.  TEXT values are small integers: student ids, dates,         *)
(* subjects, usernames and names are 1..N, ordered as SQLite's BINARY     *)
(* collation orders the strings they stand for (ISO dates compare as      *)
(* calendar dates).  None (SQL NULL, and every falsy optional argument)   *)
(* is 0.  A percentage is kept in hundredths: 3333 stands for 33.33.      *)
(***************************************************************************)
EXTENDS Integers, Sequences, FiniteSets, TLC

\* ------------------------------------------------------------ bounds
NStudents  == 2
NDates     == 2
NSubjects  == 2
NUsernames == 2
NNames     == 2
NPasswords == 2
MaxAttId   == 3      \* cap on the attendance AUTOINCREMENT counter
NCallers   == 2      \* callers running mark_attendance at the same time

None       == 0

StudentIds == 1..NStudents
Dates      == 1..NDates
Subjects   == 1..NSubjects
Usernames  == 1..NUsernames
Names      == 1..NNames
Passwords  == 1..NPasswords
Callers    == 1..NCallers

\* CHECK(status IN ('Present', 'Absent', 'Late'))
ValidStatus == {"Present", "Absent", "Late"}
\* CHECK(role IN ('student', 'teacher'))
ValidRole   == {"student", "teacher"}

\* <<status, marked_by, remarks>> as callers pass them to the record store:
\* two statuses of the enumeration and one outside it, two markers, a remark
\* and None.
MarkArgs ==
    {<<"Present", 1, None>>, <<"Absent", 2, 1>>, <<"Holiday", 2, None>>}

\* <<status, marked_by, remarks>> with every status of the enumeration.
ValidMarkArgs ==
    {<<"Present", 1, None>>, <<"Absent", 2, 1>>, <<"Late", 1, 1>>}

\* <<username, password, role, name, student_id>> of accounts the listings
\* and the logins are run against: two students whose names sort against
\* their ids, a student with the name of another, and a teacher who has the
\* username of a student and another password.
StudentA  == <<1, 1, "student", NNames, 1>>
StudentB  == <<NUsernames, NPasswords, "student", 1, NStudents>>
StudentB2 == <<NUsernames, NPasswords, "student", NNames, NStudents>>
Teacher   == <<NUsernames, 1, "teacher", 1, None>>

VARIABLES
    users,        \* rows of table users
    nextUserId,   \* the id AUTOINCREMENT gives the next users row
    attendance,   \* rows of table attendance
    nextAttId,    \* the id AUTOINCREMENT gives the next attendance row
    lastOp,       \* the call that ran last, with its arguments
    ret,          \* the boolean a mutating call returned
    exc,          \* the exception a call let escape, "none" if it returned
    result,       \* the rows or statistics a query returned
    leaked,       \* an unclosed connection still holds the write lock
    pc,           \* per concurrent caller: where its mark_attendance stands
    call,         \* per concurrent caller: the arguments of its call
    sel,          \* per concurrent caller: the id its SELECT fetched, or None
    writer,       \* the concurrent caller whose open transaction holds the
                  \* write lock, or None
    logged_in,    \* st.session_state.logged_in
    user          \* st.session_state.user

conc == <<pc, call, sel, writer>>
session == <<logged_in, user>>
vars == <<users, nextUserId, attendance, nextAttId, lastOp, ret, exc, result,
          leaked, pc, call, sel, writer, logged_in, user>>

\* ------------------------------------------------------------ helpers
Min(S) == CHOOSE x \in S : \A y \in S : x <= y

\* The elements of a set of integers as an ascending sequence.
RECURSIVE Ascending(_)
Ascending(S) == IF S = {} THEN <<>> ELSE <<Min(S)>> \o Ascending(S \ {Min(S)})

\* hashlib.sha256(password.encode()).hexdigest(): the digest is not the
\* password, and the passwords of the model have distinct digests.
hash_password(password) == 7 * password + 3

\* ------------------------------------------------------------ schema
\* users.username TEXT UNIQUE NOT NULL
UsernameTaken(tbl, username) == \E u \in tbl : u.username = username

\* users.student_id TEXT UNIQUE: NULLs never collide
StudentIdTaken(tbl, student_id) ==
    student_id # None /\ \E u \in tbl : u.student_id = student_id

\* attendance.status CHECK constraint
NoStatusCheck(status) == TRUE
StatusCheck(status) == status \in ValidStatus

\* users.role CHECK constraint
RoleCheck(role) == role \in ValidRole

\* The value of st.session_state.user when no account is logged in (None).
NoAccount == [id |-> None]

\* AuthManager.__init__ on a fresh session.
NoSession ==
    /\ logged_in = FALSE
    /\ user = NoAccount

\* No concurrent caller is inside mark_attendance.
NoCaller ==
    /\ pc = [p \in Callers |-> "idle"]
    /\ call = [p \in Callers |-> <<>>]
    /\ sel = [p \in Callers |-> None]
    /\ writer = None

Init ==
    /\ users = {}
    /\ nextUserId = 1
    /\ attendance = {}
    /\ nextAttId = 1
    /\ lastOp = [op |-> "init"]
    /\ ret = TRUE
    /\ exc = "none"
    /\ result = <<>>
    /\ leaked = FALSE
    /\ NoCaller
    /\ NoSession

\* ------------------------------------------------------------ connections
\* Every call opens its own connection and closes it on the path that returns
\* True only.  A write statement opens a transaction and takes the database's
\* write lock; when the statement then fails on a constraint the handler
\* returns with the transaction open and the connection unclosed.  The
\* connection object is part of a reference cycle (its statement cache), so it
\* keeps the lock until the interpreter's cycle collector frees it.  Until
\* then every other connection's write waits out the busy timeout and fails
\* with sqlite3.OperationalError("database is locked"); reads go on.
WriteLocked == leaked \/ writer # None

CollectGarbage ==
    /\ leaked
    /\ leaked' = FALSE
    /\ UNCHANGED <<users, nextUserId, attendance, nextAttId, lastOp, ret, exc, result>>
    /\ UNCHANGED conc
    /\ UNCHANGED session

\* ------------------------------------------------------------ create_user
create_user(username, password, role, name, student_id) ==
    /\ lastOp' = [op |-> "create_user", username |-> username,
                  password |-> password, role |-> role,
                  name |-> name, student_id |-> student_id]
    /\ result' = <<>>
    /\ UNCHANGED <<attendance, nextAttId>>
    /\ UNCHANGED conc
    /\ UNCHANGED session
    /\ IF WriteLocked
       THEN \* sqlite3.OperationalError is no IntegrityError: it escapes
            /\ ret' = FALSE
            /\ exc' = "OperationalError"
            /\ UNCHANGED <<users, nextUserId, leaked>>
       ELSE IF \/ UsernameTaken(users, username)
               \/ StudentIdTaken(users, student_id)
               \/ ~RoleCheck(role)
       THEN \* sqlite3.IntegrityError: return False, connection left open
            /\ ret' = FALSE
            /\ exc' = "none"
            /\ leaked' = TRUE
            /\ UNCHANGED <<users, nextUserId>>
       ELSE /\ users' = users \cup
                  {[id |-> nextUserId, username |-> username,
                    password |-> hash_password(password), role |-> role,
                    name |-> name, student_id |-> student_id]}
            /\ nextUserId' = nextUserId + 1
            /\ ret' = TRUE
            /\ exc' = "none"
            /\ UNCHANGED leaked

\* create_user over every combination of arguments, a rejected role included
CreateUser ==
    \E username \in Usernames, password \in Passwords,
       role \in ValidRole \cup {"admin"}, name \in Names,
       student_id \in StudentIds \cup {None} :
        create_user(username, password, role, name, student_id)

\* The users table after successful create_user calls with the given
\* arguments, in the given order.
Created(args) ==
    {[id |-> i, username |-> args[i][1],
      password |-> hash_password(args[i][2]), role |-> args[i][3],
      name |-> args[i][4], student_id |-> args[i][5]] : i \in 1..Len(args)}

\* Tables the listings are run against, each the outcome of create_user
\* calls on an empty table (each is a reachable state of SpecUsers): no
\* account, one student, a teacher first, and two students created in either
\* order of their names.
RosterTables ==
    {Created(<<>>), Created(<<StudentA>>), Created(<<Teacher, StudentA>>),
     Created(<<StudentA, StudentB>>), Created(<<StudentB2, StudentA>>)}

InitRoster ==
    /\ users \in RosterTables
    /\ nextUserId = Cardinality(users) + 1
    /\ attendance = {}
    /\ nextAttId = 1
    /\ lastOp = [op |-> "init"]
    /\ ret = TRUE
    /\ exc = "none"
    /\ result = <<>>
    /\ leaked = FALSE
    /\ NoCaller
    /\ NoSession

\* ------------------------------------------------------------ mark_attendance
\* SELECT id FROM attendance WHERE student_id = ? AND date = ? AND subject = ?
SelectExistingAnySubject(tbl, student_id, date, subject) ==
    {r.id : r \in {x \in tbl : x.student_id = student_id /\ x.date = date}}
SelectExisting(tbl, student_id, date, subject) ==
    {r.id : r \in {x \in tbl : /\ x.student_id = student_id
                               /\ x.date = date
                               /\ x.subject = subject}}

\* UPDATE attendance SET status = ?, marked_by = ?, remarks = ? WHERE id = ?
UpdateRow(tbl, id, status, marked_by, remarks) ==
    {IF r.id = id
     THEN [r EXCEPT !.status = status, !.marked_by = marked_by, !.remarks = remarks]
     ELSE r : r \in tbl}

\* INSERT INTO attendance (student_id, date, status, subject, marked_by, remarks)
InsertRow(tbl, id, student_id, date, status, subject, marked_by, remarks) ==
    tbl \cup {[id |-> id, student_id |-> student_id, date |-> date,
               status |-> status, subject |-> subject,
               marked_by |-> marked_by, remarks |-> remarks]}

mark_attendance(student_id, date, status, subject, marked_by, remarks) ==
    LET existing == SelectExisting(attendance, student_id, date, subject)
    IN  /\ lastOp' = [op |-> "mark_attendance", student_id |-> student_id,
                      date |-> date, status |-> status, subject |-> subject,
                      marked_by |-> marked_by, remarks |-> remarks]
        /\ result' = <<>>
        /\ UNCHANGED <<users, nextUserId>>
        /\ UNCHANGED conc
        /\ UNCHANGED session
        /\ exc' = "none"
        /\ IF WriteLocked
           THEN \* OperationalError, caught by "except Exception"
                /\ ret' = FALSE
                /\ UNCHANGED <<attendance, nextAttId, leaked>>
           ELSE IF ~StatusCheck(status)
           THEN \* IntegrityError, caught by "except Exception";
                \* the connection is left open
                /\ ret' = FALSE
                /\ leaked' = TRUE
                /\ UNCHANGED <<attendance, nextAttId>>
           ELSE IF existing # {}
           THEN \* fetchone(): the first row in rowid order
                /\ attendance' = UpdateRow(attendance, Min(existing),
                                           status, marked_by, remarks)
                /\ ret' = TRUE
                /\ UNCHANGED <<nextAttId, leaked>>
           ELSE /\ nextAttId <= MaxAttId
                /\ attendance' = InsertRow(attendance, nextAttId, student_id,
                                           date, status, subject, marked_by, remarks)
                /\ nextAttId' = nextAttId + 1
                /\ ret' = TRUE
                /\ UNCHANGED leaked

MarkAttendance ==
    \E student_id \in StudentIds, date \in Dates, subject \in Subjects,
       a \in MarkArgs :
        mark_attendance(student_id, date, a[1], subject, a[2], a[3])

\* mark_attendance with arguments the constraints accept
MarkValid ==
    \E student_id \in StudentIds, date \in Dates, subject \in Subjects,
       a \in ValidMarkArgs :
        mark_attendance(student_id, date, a[1], subject, a[2], a[3])

\* mark_attendance with one fixed <<status, marked_by, remarks>>
MarkPresent ==
    \E student_id \in StudentIds, date \in Dates, subject \in Subjects :
        mark_attendance(student_id, date, "Present", subject, 1, None)

\* ------------------------------------------------------------ delete_attendance
\* DELETE FROM attendance WHERE id = ?
DeleteRows(tbl, attendance_id) == {r \in tbl : r.id # attendance_id}

DeleteAttendance ==
    \E attendance_id \in 1..(MaxAttId + 1) :
        /\ lastOp' = [op |-> "delete_attendance", attendance_id |-> attendance_id]
        /\ result' = <<>>
        /\ exc' = "none"
        /\ UNCHANGED <<users, nextUserId, nextAttId, leaked>>
        /\ UNCHANGED conc
        /\ UNCHANGED session
        /\ IF WriteLocked
           THEN \* OperationalError, caught by "except Exception"
                /\ ret' = FALSE
                /\ UNCHANGED attendance
           ELSE /\ attendance' = DeleteRows(attendance, attendance_id)
                /\ ret' = TRUE

\* ------------------------------------------------------------ statistics
\* round(present / total * 100, 2) in hundredths, for total > 0.  Python rounds
\* the double to the nearest hundredth, an exact tie to the even one.
Round2(present, total) ==
    LET q == (present * 10000) \div total
        r == (present * 10000) % total
    IN  IF 2 * r > total THEN q + 1
        ELSE IF 2 * r = total THEN q + (q % 2)
        ELSE q

\* (present / total * 100) if total > 0 else 0, then round(.., 2)
Percentage(present, total) == IF total > 0 THEN Round2(present, total) ELSE 0

\* SUM(CASE WHEN status = ? THEN 1 ELSE 0 END), a NULL sum read as 0
CountNotAbsent(rows, status) == Cardinality({r \in rows : r.status # "Absent"})
CountStatus(rows, status) == Cardinality({r \in rows : r.status = status})

\* FROM attendance WHERE student_id = ?
AllRows(tbl, student_id) == tbl
StudentRows(tbl, student_id) == {r \in tbl : r.student_id = student_id}

get_attendance_statistics(student_id) ==
    LET rows    == StudentRows(attendance, student_id)
        total   == Cardinality(rows)
        present == CountStatus(rows, "Present")
    IN  [total |-> total,
         present |-> present,
         absent |-> CountStatus(rows, "Absent"),
         late |-> CountStatus(rows, "Late"),
         percentage |-> Percentage(present, total)]

GetAttendanceStatistics ==
    \E student_id \in StudentIds :
        /\ lastOp' = [op |-> "get_attendance_statistics", student_id |-> student_id]
        /\ result' = get_attendance_statistics(student_id)
        /\ ret' = TRUE
        /\ exc' = "none"
        /\ UNCHANGED <<users, nextUserId, attendance, nextAttId, leaked>>
        /\ UNCHANGED conc
        /\ UNCHANGED session

\* GROUP BY subject: one group per subject among the selected rows
GroupSubjects(rows) == {r.subject : r \in rows}

\* the row of one group
SubjectEntry(rows, subject) ==
    LET grp     == {r \in rows : r.subject = subject}
        total   == Cardinality(grp)
        present == CountStatus(grp, "Present")
    IN  [subject |-> subject,
         total |-> total,
         present |-> present,
         absent |-> CountStatus(grp, "Absent"),
         late |-> CountStatus(grp, "Late"),
         percentage |-> Percentage(present, total)]

\* ... WHERE student_id = ? GROUP BY subject ORDER BY subject
get_subject_wise_statistics(student_id) ==
    LET rows   == StudentRows(attendance, student_id)
        groups == Ascending(GroupSubjects(StudentRows(attendance, student_id)))
    IN  [i \in 1..Len(groups) |-> SubjectEntry(rows, groups[i])]

GetSubjectWiseStatistics ==
    \E student_id \in StudentIds :
        /\ lastOp' = [op |-> "get_subject_wise_statistics", student_id |-> student_id]
        /\ result' = get_subject_wise_statistics(student_id)
        /\ ret' = TRUE
        /\ exc' = "none"
        /\ UNCHANGED <<users, nextUserId, attendance, nextAttId, leaked>>
        /\ UNCHANGED conc
        /\ UNCHANGED session

\* ------------------------------------------------------------ listings
\* FROM attendance a JOIN users u ON a.student_id = u.student_id, with the
\* selected columns; u.name is returned as student_name.
JoinUsers(tbl, usr) ==
    {[id |-> a.id, student_id |-> a.student_id, date |-> a.date,
      status |-> a.status, subject |-> a.subject, marked_by |-> a.marked_by,
      remarks |-> a.remarks, student_name |-> u.name] :
        <<a, u>> \in {p \in tbl \X usr : p[1].student_id = p[2].student_id}}

\* "if start_date: query += ' AND a.date >= ?'" and the same for end_date
InRange(date, start_date, end_date) ==
    /\ start_date # None => date >= start_date
    /\ end_date # None => date <= end_date

\* "if subject: query += ' AND a.subject = ?'"
SubjectMatches(row_subject, subject) == subject # None => row_subject = subject

\* The joined rows as the table scan meets them: in rowid order.
RECURSIVE RowidOrder(_)
RowidOrder(rows) ==
    IF rows = {} THEN <<>>
    ELSE LET first == CHOOSE r \in rows : \A o \in rows : r.id <= o.id
         IN  <<first>> \o RowidOrder(rows \ {first})

\* Sort keys, compared ascending and lexicographically.
\* ORDER BY a.date DESC, a.subject
DateDescSubject(r) == <<0 - r.date, r.subject>>
\* ORDER BY a.date DESC, u.name
DateDescName(r) == <<0 - r.date, r.student_name>>

KeyLess(k1, k2) == k1[1] < k2[1] \/ (k1[1] = k2[1] /\ k1[2] < k2[2])

\* SQLite's sorter: rows with equal keys stay in scan order.
RECURSIVE InsertByKey(_, _)
InsertByKey(sorted, x) ==
    IF sorted = <<>> THEN <<x>>
    ELSE IF KeyLess(x.key, Head(sorted).key) THEN <<x>> \o sorted
    ELSE <<Head(sorted)>> \o InsertByKey(Tail(sorted), x)

RECURSIVE SortByKey(_)
SortByKey(keyed) ==
    IF keyed = <<>> THEN <<>>
    ELSE InsertByKey(SortByKey(SubSeq(keyed, 1, Len(keyed) - 1)), keyed[Len(keyed)])

\* The rows of a sorted sequence of <<key, row>> records.
SortedRows(keyed) ==
    LET sorted == SortByKey(keyed)
    IN  [i \in 1..Len(sorted) |-> sorted[i].row]

StudentOrderByName(rows) ==
    LET scan == RowidOrder(rows)
    IN  SortedRows([i \in 1..Len(scan) |->
                       [key |-> DateDescName(scan[i]), row |-> scan[i]]])
StudentOrder(rows) ==
    LET scan == RowidOrder(rows)
    IN  SortedRows([i \in 1..Len(scan) |->
                       [key |-> DateDescSubject(scan[i]), row |-> scan[i]]])

AllOrderBySubject(rows) ==
    LET scan == RowidOrder(rows)
    IN  SortedRows([i \in 1..Len(scan) |->
                       [key |-> DateDescSubject(scan[i]), row |-> scan[i]]])
AllOrder(rows) ==
    LET scan == RowidOrder(rows)
    IN  SortedRows([i \in 1..Len(scan) |->
                       [key |-> DateDescName(scan[i]), row |-> scan[i]]])

get_student_attendance(student_id, start_date, end_date) ==
    StudentOrder({r \in JoinUsers(attendance, users) :
                     /\ r.student_id = student_id
                     /\ InRange(r.date, start_date, end_date)})

GetStudentAttendance ==
    \E student_id \in StudentIds, start_date \in Dates \cup {None},
       end_date \in Dates \cup {None} :
        /\ lastOp' = [op |-> "get_student_attendance", student_id |-> student_id,
                      start_date |-> start_date, end_date |-> end_date]
        /\ result' = get_student_attendance(student_id, start_date, end_date)
        /\ ret' = TRUE
        /\ exc' = "none"
        /\ UNCHANGED <<users, nextUserId, attendance, nextAttId, leaked>>
        /\ UNCHANGED conc
        /\ UNCHANGED session

get_all_attendance(start_date, end_date, subject) ==
    AllOrder({r \in JoinUsers(attendance, users) :
                 /\ InRange(r.date, start_date, end_date)
                 /\ SubjectMatches(r.subject, subject)})

GetAllAttendance ==
    \E start_date \in Dates \cup {None}, end_date \in Dates \cup {None},
       subject \in Subjects \cup {None} :
        /\ lastOp' = [op |-> "get_all_attendance", start_date |-> start_date,
                      end_date |-> end_date, subject |-> subject]
        /\ result' = get_all_attendance(start_date, end_date, subject)
        /\ ret' = TRUE
        /\ exc' = "none"
        /\ UNCHANGED <<users, nextUserId, attendance, nextAttId, leaked>>
        /\ UNCHANGED conc
        /\ UNCHANGED session

\* ------------------------------------------------------------ concurrent callers
\* mark_attendance run by several callers at once, each on its own connection
\* (get_connection), one statement at a time.  The callers mark student 1 on
\* date 1.  A connection reads what is committed; sqlite3 opens the
\* transaction before the INSERT or UPDATE, which takes the write lock, and
\* conn.commit() publishes the change and releases the lock.

\* conn = self.get_connection(); SELECT id ...; existing = cursor.fetchone()
Select(p) ==
    \E subject \in Subjects, a \in ValidMarkArgs :
        LET existing == SelectExisting(attendance, 1, 1, subject)
        IN  /\ pc[p] = "idle"
            /\ call' = [call EXCEPT ![p] =
                          [op |-> "mark_attendance", student_id |-> 1, date |-> 1,
                           status |-> a[1], subject |-> subject,
                           marked_by |-> a[2], remarks |-> a[3]]]
            /\ sel' = [sel EXCEPT ![p] = IF existing = {} THEN None ELSE Min(existing)]
            /\ pc' = [pc EXCEPT ![p] = "selected"]
            /\ UNCHANGED <<users, nextUserId, attendance, nextAttId, lastOp, ret,
                           exc, result, leaked, writer>>
            /\ UNCHANGED session

\* "if existing: UPDATE ... else: INSERT ...": the statement waits for the
\* write lock and runs inside the caller's transaction.  An INSERT past the
\* cap on ids is left out of the model.
Write(p) ==
    /\ pc[p] = "selected"
    /\ ~WriteLocked
    /\ sel[p] = None => nextAttId <= MaxAttId
    /\ writer' = p
    /\ pc' = [pc EXCEPT ![p] = "written"]
    /\ UNCHANGED <<users, nextUserId, attendance, nextAttId, lastOp, ret, exc,
                   result, leaked, call, sel>>
    /\ UNCHANGED session

\* The lock stays taken for longer than the busy timeout: OperationalError,
\* caught by "except Exception"; return False.
WriteBusy(p) ==
    /\ pc[p] = "selected"
    /\ WriteLocked
    /\ pc' = [pc EXCEPT ![p] = "idle"]
    /\ sel' = [sel EXCEPT ![p] = None]
    /\ lastOp' = call[p]
    /\ ret' = FALSE
    /\ exc' = "none"
    /\ result' = <<>>
    /\ UNCHANGED <<users, nextUserId, attendance, nextAttId, leaked, call, writer>>
    /\ UNCHANGED session

\* conn.commit(); conn.close(); return True
Commit(p) ==
    LET c == call[p]
    IN  /\ pc[p] = "written"
        /\ IF sel[p] # None
           THEN /\ attendance' = UpdateRow(attendance, sel[p], c.status,
                                           c.marked_by, c.remarks)
                /\ UNCHANGED nextAttId
           ELSE /\ attendance' = InsertRow(attendance, nextAttId, c.student_id,
                                           c.date, c.status, c.subject,
                                           c.marked_by, c.remarks)
                /\ nextAttId' = nextAttId + 1
        /\ writer' = None
        /\ pc' = [pc EXCEPT ![p] = "idle"]
        /\ sel' = [sel EXCEPT ![p] = None]
        /\ lastOp' = c
        /\ ret' = TRUE
        /\ exc' = "none"
        /\ result' = <<>>
        /\ UNCHANGED <<users, nextUserId, leaked, call>>
        /\ UNCHANGED session

\* ------------------------------------------------------------ session
\* The dictionary authenticate_user builds from the fetched row.
Account(u) ==
    [id |-> u.id, username |-> u.username, role |-> u.role, name |-> u.name,
     student_id |-> u.student_id]

\* SELECT ... FROM users WHERE username = ? AND password = ?; fetchone()
authenticate_user(username, password) ==
    LET rows == {u \in users : /\ u.username = username
                               /\ u.password = hash_password(password)}
    IN  IF rows = {}
        THEN NoAccount
        ELSE Account(CHOOSE u \in rows : \A v \in rows : u.id <= v.id)

\* "if user:" in login: None is falsy, the dictionary of an account truthy
AlwaysAuthenticated(account) == TRUE
Authenticated(account) == account # NoAccount

login(username, password) ==
    LET account == authenticate_user(username, password)
    IN  /\ lastOp' = [op |-> "login", username |-> username,
                      password |-> password]
        /\ IF Authenticated(account)
           THEN /\ logged_in' = TRUE
                /\ user' = account
                /\ ret' = TRUE
           ELSE /\ ret' = FALSE
                /\ UNCHANGED session
        /\ exc' = "none"
        /\ result' = <<>>
        /\ UNCHANGED <<users, nextUserId, attendance, nextAttId, leaked>>
        /\ UNCHANGED conc

Login ==
    \E username \in Usernames, password \in Passwords :
        login(username, password)

Logout ==
    /\ lastOp' = [op |-> "logout"]
    /\ logged_in' = FALSE
    /\ user' = NoAccount
    /\ ret' = TRUE
    /\ exc' = "none"
    /\ result' = <<>>
    /\ UNCHANGED <<users, nextUserId, attendance, nextAttId, leaked>>
    /\ UNCHANGED conc

is_logged_in == logged_in

\* st.session_state.user if self.is_logged_in() else None
get_current_user == IF is_logged_in THEN user ELSE NoAccount

\* The truth value of "user and user['role'] == 'student'": the call returns
\* None when there is no current user, else the comparison.
is_student ==
    get_current_user # NoAccount /\ get_current_user.role = "student"

is_teacher ==
    get_current_user # NoAccount /\ get_current_user.role = "teacher"

\* create_user for the accounts the logins are run against
CreateAccount ==
    \E a \in {StudentA, StudentB, Teacher} :
        create_user(a[1], a[2], a[3], a[4], a[5])

\* ------------------------------------------------------------ specifications
\* The record store: every mark_attendance and delete_attendance call, and
\* the collector freeing a connection a failed call left open.
Next ==
    \/ MarkAttendance
    \/ DeleteAttendance
    \/ CollectGarbage

Spec == Init /\ [][Next]_vars

\* The users table.
NextUsers ==
    \/ CreateUser
    \/ CollectGarbage

SpecUsers == Init /\ [][NextUsers]_vars

\* The statistics over a store filled by accepted calls.
NextStats ==
    \/ MarkValid
    \/ DeleteAttendance
    \/ GetAttendanceStatistics
    \/ GetSubjectWiseStatistics

SpecStats == Init /\ [][NextStats]_vars

\* The student listing over a roster and a store filled by accepted calls.
NextListing ==
    \/ MarkPresent
    \/ DeleteAttendance
    \/ GetStudentAttendance

SpecListing == InitRoster /\ [][NextListing]_vars

\* The teacher listing, likewise.
NextListAll ==
    \/ MarkPresent
    \/ DeleteAttendance
    \/ GetAllAttendance

SpecListAll == InitRoster /\ [][NextListAll]_vars

\* Concurrent mark_attendance calls.
NextConc ==
    \/ \E p \in Callers : Select(p)
    \/ \E p \in Callers : Write(p)
    \/ \E p \in Callers : WriteBusy(p)
    \/ \E p \in Callers : Commit(p)

SpecConc == Init /\ [][NextConc]_vars

\* The session: accounts are created, and one browser session logs in and out.
NextAuth ==
    \/ CreateAccount
    \/ Login
    \/ Logout
    \/ CollectGarbage

SpecAuth == Init /\ [][NextAuth]_vars

\* ------------------------------------------------------------ properties

\* C1: after sequential mark_attendance and delete_attendance calls the table
\* holds at most one record per (student_id, date, subject), and after a
\* successful mark_attendance the one record of its triple carries the status,
\* marked_by and remarks of that call.
C1_UpsertUnique ==
    /\ \A r1, r2 \in attendance :
          (/\ r1.student_id = r2.student_id
           /\ r1.date = r2.date
           /\ r1.subject = r2.subject) => r1.id = r2.id
    /\ (lastOp.op = "mark_attendance" /\ ret) =>
          LET rows == {r \in attendance : /\ r.student_id = lastOp.student_id
                                          /\ r.date = lastOp.date
                                          /\ r.subject = lastOp.subject}
          IN  /\ Cardinality(rows) = 1
              /\ \A r \in rows : /\ r.status = lastOp.status
                                 /\ r.marked_by = lastOp.marked_by
                                 /\ r.remarks = lastOp.remarks

\* A successful mark that took the update path: its record is older than the
\* newest id handed out, and another record sits beside it.
C1_Witness ==
    /\ lastOp.op = "mark_attendance"
    /\ ret
    /\ \E r \in attendance : /\ r.student_id = lastOp.student_id
                             /\ r.date = lastOp.date
                             /\ r.subject = lastOp.subject
                             /\ r.id < nextAttId - 1
    /\ Cardinality(attendance) > 1

\* C2: when two callers have run mark_attendance for the same triple at the
\* same time and both have returned, exactly one record exists for the triple
\* and it carries the fields of the call that committed last; no duplicate is
\* ever created.
C2_LastWriteWins ==
    /\ \A r1, r2 \in attendance :
          (/\ r1.student_id = r2.student_id
           /\ r1.date = r2.date
           /\ r1.subject = r2.subject) => r1.id = r2.id
    /\ (/\ \A p \in Callers : pc[p] = "idle" /\ call[p] # <<>>
        /\ \A p, q \in Callers : call[p].subject = call[q].subject
        /\ lastOp.op = "mark_attendance"
        /\ ret) =>
          LET rows == {r \in attendance : /\ r.student_id = lastOp.student_id
                                          /\ r.date = lastOp.date
                                          /\ r.subject = lastOp.subject}
          IN  /\ Cardinality(rows) = 1
              /\ \A r \in rows : /\ r.status = lastOp.status
                                 /\ r.marked_by = lastOp.marked_by
                                 /\ r.remarks = lastOp.remarks

\* C3: delete_attendance(id), for any id and any state of the table, returns
\* success, removes the record with that id and no other, and changes nothing
\* when no record has the id, be it a repeated delete or an id never stored.
\* (A step that leaves the flag leaked alone is a call, not the collector.)
C3_DeleteIdempotent ==
    [][(lastOp'.op = "delete_attendance" /\ leaked' = leaked) =>
          /\ ret' = TRUE
          /\ exc' = "none"
          /\ \A r \in attendance : r.id # lastOp'.attendance_id => r \in attendance'
          /\ \A r \in attendance' : r \in attendance /\ r.id # lastOp'.attendance_id
          /\ (\A r \in attendance : r.id # lastOp'.attendance_id)
                => attendance' = attendance
          /\ (lastOp.op = "delete_attendance"
              /\ lastOp.attendance_id = lastOp'.attendance_id)
                => attendance' = attendance]_vars

\* C4: get_attendance_statistics returns the exact numbers of the student's
\* records in all and with each status, and percentage = present / total * 100
\* rounded to the nearest hundredth, only Present in the numerator; a student
\* without records gets all zeros.
C4_Statistics ==
    lastOp.op = "get_attendance_statistics" =>
        LET mine == {r \in attendance : r.student_id = lastOp.student_id}
            n(st) == Cardinality({r \in mine : r.status = st})
        IN  /\ result.total = Cardinality(mine)
            /\ result.present = n("Present")
            /\ result.absent = n("Absent")
            /\ result.late = n("Late")
            /\ mine = {} =>
                  result = [total |-> 0, present |-> 0, absent |-> 0,
                            late |-> 0, percentage |-> 0]
            /\ mine # {} =>
                  LET d == result.percentage * Cardinality(mine) - 10000 * n("Present")
                  IN  /\ 2 * d <= Cardinality(mine)
                      /\ -2 * d <= Cardinality(mine)

\* Two Present and one Late: 66.67, neither 66.66 nor 100.
C4_Witness ==
    /\ lastOp.op = "get_attendance_statistics"
    /\ result.total = 3
    /\ result.late = 1
    /\ result.percentage = 6667

\* C5: get_subject_wise_statistics returns one entry per subject the student
\* has a record in, in ascending subject order, none for a subject only other
\* students have records in, each with the counts and zero-guarded percentage
\* of that student's records in that subject.
C5_SubjectStatistics ==
    lastOp.op = "get_subject_wise_statistics" =>
        LET mine == {r \in attendance : r.student_id = lastOp.student_id}
            of(sub) == {r \in mine : r.subject = sub}
            n(sub, st) == Cardinality({r \in of(sub) : r.status = st})
        IN  /\ \A i \in 1..(Len(result) - 1) : result[i].subject < result[i + 1].subject
            /\ {result[i].subject : i \in 1..Len(result)} = {r.subject : r \in mine}
            /\ \A i \in 1..Len(result) :
                  LET e == result[i]
                      d == e.percentage * e.total - 10000 * e.present
                  IN  /\ e.total = Cardinality(of(e.subject))
                      /\ e.total > 0
                      /\ e.present = n(e.subject, "Present")
                      /\ e.absent = n(e.subject, "Absent")
                      /\ e.late = n(e.subject, "Late")
                      /\ 2 * d <= e.total
                      /\ -2 * d <= e.total

\* One entry for the student's only subject while another student has a
\* record in a subject this student has none in.
C5_Witness ==
    /\ lastOp.op = "get_subject_wise_statistics"
    /\ Len(result) = 1
    /\ result[1].total = 2
    /\ result[1].percentage = 5000
    /\ \E r \in attendance : /\ r.student_id # lastOp.student_id
                             /\ r.subject # result[1].subject

\* C6: get_student_attendance returns the records by date descending, ties on
\* the date by subject ascending: of two adjacent rows r1, r2 either
\* r1.date > r2.date, or r1.date = r2.date and r1.subject <= r2.subject.
C6_StudentOrdering ==
    lastOp.op = "get_student_attendance" =>
        \A i \in 1..(Len(result) - 1) :
            \/ result[i].date > result[i + 1].date
            \/ /\ result[i].date = result[i + 1].date
               /\ result[i].subject <= result[i + 1].subject

\* Three rows over two dates; the two of the later date were stored with the
\* greater subject first and come back with the smaller one first.
C6_Witness ==
    /\ lastOp.op = "get_student_attendance"
    /\ Len(result) = 3
    /\ result[1].date = result[2].date
    /\ result[1].subject < result[2].subject
    /\ result[1].id > result[2].id
    /\ result[2].date > result[3].date

\* C7 as stated: get_all_attendance orders like get_student_attendance, by
\* date descending then subject ascending, and returns only records inside the
\* inclusive date range and of the given subject.
C7_AllOrderedBySubject ==
    lastOp.op = "get_all_attendance" =>
        /\ \A i \in 1..(Len(result) - 1) :
              \/ result[i].date > result[i + 1].date
              \/ /\ result[i].date = result[i + 1].date
                 /\ result[i].subject <= result[i + 1].subject
        /\ \A i \in 1..Len(result) :
              /\ lastOp.start_date # None => result[i].date >= lastOp.start_date
              /\ lastOp.end_date # None => result[i].date <= lastOp.end_date
              /\ lastOp.subject # None => result[i].subject = lastOp.subject

\* C7 amended: get_all_attendance orders by date descending, then by the
\* student's name ascending, and returns only records, of any student, inside
\* the inclusive date range and of the given subject.
C7_AllOrderedByName ==
    lastOp.op = "get_all_attendance" =>
        /\ \A i \in 1..(Len(result) - 1) :
              \/ result[i].date > result[i + 1].date
              \/ /\ result[i].date = result[i + 1].date
                 /\ result[i].student_name <= result[i + 1].student_name
        /\ \A i \in 1..Len(result) :
              /\ lastOp.start_date # None => result[i].date >= lastOp.start_date
              /\ lastOp.end_date # None => result[i].date <= lastOp.end_date
              /\ lastOp.subject # None => result[i].subject = lastOp.subject
              /\ \E r \in attendance :
                    /\ r.id = result[i].id
                    /\ r.student_id = result[i].student_id
                    /\ r.date = result[i].date
                    /\ r.subject = result[i].subject

\* Two students on one date inside a given range: the smaller name comes
\* first although its subject is the greater, and a record outside the range
\* is left out.
C7_Witness ==
    /\ lastOp.op = "get_all_attendance"
    /\ lastOp.start_date # None
    /\ Len(result) = 2
    /\ result[1].date = result[2].date
    /\ result[1].student_id # result[2].student_id
    /\ result[1].student_name < result[2].student_name
    /\ result[1].subject > result[2].subject
    /\ \E r \in attendance : r.date < lastOp.start_date

\* C8: the date range of get_student_attendance is inclusive and exact: a
\* record of the student is returned if and only if it is dated within
\* [start, end], an omitted bound leaving that side open.
C8_RangeInclusive ==
    lastOp.op = "get_student_attendance" =>
        \A r \in attendance :
            r.student_id = lastOp.student_id =>
                ((\E i \in 1..Len(result) : result[i].id = r.id)
                  <=> (/\ lastOp.start_date # None => lastOp.start_date <= r.date
                       /\ lastOp.end_date # None => r.date <= lastOp.end_date))

\* C9: mark_attendance with a status outside {Present, Absent, Late} returns
\* False and leaves the table as it was, whether or not a record of the triple
\* exists; every stored record has a status of the enumeration.
C9_StatusRejected ==
    /\ [](\A r \in attendance : r.status \in {"Present", "Absent", "Late"})
    /\ [][(/\ lastOp'.op = "mark_attendance"
           /\ lastOp'.status \notin {"Present", "Absent", "Late"}) =>
              /\ ret' = FALSE
              /\ exc' = "none"
              /\ attendance' = attendance
              /\ nextAttId' = nextAttId]_vars

\* A rejected status on the update path: the triple already has a record.
C9_Witness ==
    /\ lastOp.op = "mark_attendance"
    /\ lastOp.status \notin {"Present", "Absent", "Late"}
    /\ ~ret
    /\ \E r \in attendance : /\ r.student_id = lastOp.student_id
                             /\ r.date = lastOp.date
                             /\ r.subject = lastOp.subject

\* C10: create_user with a username in use, or a non-null student_id in use,
\* returns False without raising and leaves the users table as it was; no two
\* users share a username and no two share a non-null student_id.
C10_UserUnique ==
    /\ [](\A u1, u2 \in users :
            /\ u1.username = u2.username => u1.id = u2.id
            /\ (u1.student_id # None /\ u1.student_id = u2.student_id)
                  => u1.id = u2.id)
    /\ [][(/\ lastOp'.op = "create_user"
           /\ ~(leaked /\ ~leaked')
           /\ \E u \in users :
                 \/ u.username = lastOp'.username
                 \/ (lastOp'.student_id # None
                     /\ u.student_id = lastOp'.student_id)) =>
              /\ ret' = FALSE
              /\ exc' = "none"
              /\ users' = users
              /\ nextUserId' = nextUserId]_vars

\* C11: the listing and the statistics agree on which records belong to a
\* student: for every student_id, with or without a users row, the number of
\* rows get_student_attendance returns with no date range equals the total of
\* get_attendance_statistics, and the subjects in the listing are the subjects
\* of get_subject_wise_statistics.
C11_ViewsAgree ==
    \A s \in StudentIds :
        LET listing  == get_student_attendance(s, None, None)
            subjects == get_subject_wise_statistics(s)
        IN  /\ Len(listing) = get_attendance_statistics(s).total
            /\ {listing[i].subject : i \in 1..Len(listing)}
                  = {subjects[i].subject : i \in 1..Len(subjects)}

\* C12: after any sequence of login and logout calls logged_in is True
\* exactly when user is not None; a login that fails leaves both session
\* fields as they were; a login that succeeds sets user to the account with
\* the given username and password; logout leaves logged_in False and user
\* None, and get_current_user, is_student and is_teacher are not truthy then.
C12_SessionConsistent ==
    /\ [](logged_in = TRUE <=> user # NoAccount)
    /\ [](lastOp.op = "logout" =>
            /\ logged_in = FALSE
            /\ user = NoAccount
            /\ get_current_user = NoAccount
            /\ ~is_student
            /\ ~is_teacher)
    /\ [][(lastOp'.op = "login" /\ ret' = FALSE) =>
              (logged_in' = logged_in /\ user' = user)]_vars
    /\ [][(lastOp'.op = "login" /\ ret' = TRUE) =>
              /\ logged_in' = TRUE
              /\ \E u \in users :
                    /\ u.username = lastOp'.username
                    /\ u.password = hash_password(lastOp'.password)
                    /\ user' = [id |-> u.id, username |-> u.username,
                                role |-> u.role, name |-> u.name,
                                student_id |-> u.student_id]]_vars

\* A login with a wrong password for the account that is logged in has
\* failed, and the account is still logged in.
C12_Witness ==
    /\ lastOp.op = "login"
    /\ ret = FALSE
    /\ logged_in = TRUE
    /\ user # NoAccount
    /\ user.username = lastOp.username
    /\ is_teacher

====
